---- MODULE Spec2Model ----
(***************************************************************************)
(* Hireflow360 backend: the per-candidate conversation state (field        *)
(* states), the operations that write it (resume parsing, manual candidate *)
(* creation, manual state update, outbound messages, incoming replies),    *)
(* the pending-field computations, the HR-review gate and the deterministic*)
(* reply classifiers.                                                      *)
(*                                                                         *)
(* Conventions                                                             *)
(*  - One candidate is modelled; it exists from Init (as created by        *)
(*    api/resumes.py upload_resume: status "new", empty conversation_state).*)
(*  - A confidence is kept in hundredths: 0.9 is 90, the 0.5 threshold 50. *)
(*  - Python None is the string "None"; "" and "[]" are the falsy values.  *)
(*  - conversation_state["fields"] is a Python dict: it is modelled as the *)
(*    sequence of its entries in insertion order, each carrying its key.   *)
(*  - overall_confidence is a percentage kept as an exact fraction.        *)
(*  - Timestamps, message contents, CandidateSkill rows and the           *)
(*    candidate's scalar columns other than status and overall_confidence  *)
(*    are not part of the state modelled here; of the ParsedField rows     *)
(*    only those the last operation added are kept, as history.            *)
(*  - A resume job is one atomic step in Spec; SpecWorkers follows the     *)
(*    threads of process_resume_upload step by step.                       *)
(*  - Each handler is one atomic step, taken from the point where its      *)
(*    candidate lookup has succeeded.                                      *)
(***************************************************************************)
EXTENDS Integers, Sequences, FiniteSets, TLC

VARIABLES
    has_conversation_state, \* bool(candidate.conversation_state)
    fields,                 \* candidate.conversation_state["fields"], in dict order
    status,                 \* candidate.status
    overall_confidence,     \* candidate.overall_confidence, [num, den] percent
    messages,               \* Message rows of the candidate, oldest first
    max_evidence,           \* history: highest confidence merged so far, per field key
    last_evidence,          \* history: the evidence the last step merged, per field key
    last_op,                \* history: name of the last operation
    last_reply,             \* history: what the last processed reply was handled with
    reply_text,             \* classifier input: the reply text, a set of phrases
    reply_result,           \* classifier output of the last classification
    ops,                    \* number of operations performed on the candidate
    last_job,               \* history: the Job row of the last resume job, as it ended
    workers,                \* the process_resume_upload threads started for the candidate
    last_parsed_fields,     \* history: the ParsedField rows the last operation added
    raw_text,               \* history: stripped length of the text the last operation extracted
    extraction,             \* one PDF text extraction: the attempts' outputs and the result
    jobs,                   \* the Job rows with the position of each job's worker thread
    last_retry,             \* history: the last retry_failed_job call and how it ended
    auth                    \* the login caches of one email, the clock and the last login

convVars == <<has_conversation_state, fields, status, overall_confidence>>
histVars == <<max_evidence, last_evidence, last_op, last_reply>>
clsVars == <<reply_text, reply_result>>
jobVars == <<last_job, workers>>
extVars == <<extraction, jobs, last_retry, auth>>
coreVars == <<convVars, messages, histVars, clsVars, ops, jobVars, last_parsed_fields, raw_text>>
vars == <<has_conversation_state, fields, status, overall_confidence, messages,
          max_evidence, last_evidence, last_op, last_reply, reply_text, reply_result, ops,
          last_job, workers, last_parsed_fields, raw_text, extraction, jobs, last_retry, auth>>

(***************************************************************************)
(* Bounds                                                                  *)
(***************************************************************************)
MaxMessages == 3
MaxOps == 3
MaxWorkers == 3
MaxScored == 12

(***************************************************************************)
(* Values                                                                  *)
(***************************************************************************)
None == "None"

Truthy(v) == v \notin {None, "", "[]"}

\* a Job row: status and error
Job(st, err) == [status |-> st, error |-> err]

NoJob == Job("none", None)

\* the output of one text extraction attempt: a text, as its length and its
\* stripped length, or AttemptFails for an attempt that raised
Text(length, stripped) == [raised |-> FALSE, len |-> length, strip |-> stripped]
EmptyText == Text(0, 0)
AttemptFails == [raised |-> TRUE, len |-> 0, strip |-> 0]

\* one extraction of a PDF: what pdfplumber (primary), PyPDF2 (secondary) and
\* OCR give on the document, the parser's use_ocr, and once a function has run
\* (by), the attempts it made and the text it returned
Extraction(primary, secondary, ocr, use_ocr, by, tried, result) ==
    [primary |-> primary, secondary |-> secondary, ocr |-> ocr, use_ocr |-> use_ocr,
     by |-> by, tried |-> tried, result |-> result]
NoExtraction == Extraction(EmptyText, EmptyText, EmptyText, FALSE, "none", {}, EmptyText)

\* the sufficiency threshold of the extracted text, in characters
SufficientChars == 100

\* a Job row together with its worker: the function the job was handed to
\* (kind), the referenced row that does not exist (missing), the position of
\* the worker thread (pc) and whether that worker wrote the candidate
JobRow(kind, missing) ==
    [kind |-> kind, missing |-> missing, status |-> "queued", error |-> None,
     pc |-> "start", updated_candidate |-> FALSE, retry_of |-> 0, retry_count |-> 0]

\* the login state of one email: _failed_attempts_cache[email] as the list of
\* attempt times, _account_lock_cache[email] (None when absent), the clock
\* datetime.utcnow() in minutes, and the last login request with the number
\* of cached failed attempts it found and the HTTP status it was answered with
LoginState(failed_attempts, lock_until, now, last_login) ==
    [failed_attempts |-> failed_attempts, lock_until |-> lock_until, now |-> now,
     last_login |-> last_login]
LoginResult(password, found, response) ==
    [password |-> password, found |-> found, response |-> response]
NoLogins == LoginState(<<>>, None, 0, LoginResult("none", 0, 0))

\* a retry_failed_job call: the job it was called on and how it ended
Retry(job, outcome) == [job |-> job, outcome |-> outcome]
NoRetry == Retry(0, "none")

\* a ParsedField row; confidence in hundredths like every confidence here
ParsedFieldRow(name, confidence, source) ==
    [name |-> name, confidence |-> confidence, source |-> source]

RECURSIVE GCD(_, _)
GCD(a, b) == IF b = 0 THEN a ELSE GCD(b, a % b)

\* the exact value num/den, reduced
Frac(num, den) ==
    IF num = 0 THEN [num |-> 0, den |-> 1]
    ELSE LET g == GCD(num, den) IN [num |-> num \div g, den |-> den \div g]

RECURSIVE SumSeq(_)
SumSeq(s) == IF s = <<>> THEN 0 ELSE Head(s) + SumSeq(Tail(s))

(***************************************************************************)
(* The fields dict                                                         *)
(***************************************************************************)
FieldState(k, v, c, a, an, s) ==
    [key |-> k, value |-> v, confidence |-> c, asked |-> a, answered |-> an, source |-> s]

HasKey(d, k) == \E i \in 1..Len(d) : d[i].key = k

IndexOf(d, k) == CHOOSE i \in 1..Len(d) : d[i].key = k

Get(d, k) == d[IndexOf(d, k)]

Put(d, rec) ==
    IF HasKey(d, rec.key) THEN [d EXCEPT ![IndexOf(d, rec.key)] = rec]
    ELSE Append(d, rec)

KeysOf(d) == {d[i].key : i \in 1..Len(d)}

AllKeys ==
    {"name", "email", "phone", "experience", "skills", "currentCompany",
     "education", "location", "expected_salary"}

(***************************************************************************)
(* History of the evidence written into the conversation state            *)
(***************************************************************************)
Evidence(v, c, s) == [value |-> v, confidence |-> c, source |-> s]

NoEvidence == Evidence(None, -1, None)

NoEvidenceAtAll == [k \in AllKeys |-> NoEvidence]

Max(a, b) == IF a >= b THEN a ELSE b

\* every operation on the candidate counts towards the bound on the run
Tick == ops < MaxOps /\ ops' = ops + 1

RecordEvidence(ev) ==
    /\ Tick
    /\ last_evidence' = ev
    /\ max_evidence' = [k \in AllKeys |-> Max(max_evidence[k], ev[k].confidence)]

(***************************************************************************)
(* Reply analyses                                                          *)
(***************************************************************************)
\* the keys an analysis may carry in extracted_data
ExtractedKeys == {"location", "expected_salary", "expectedSalary"}

Absent == "<absent>"

NoData == [k \in ExtractedKeys |-> Absent]

Analysis(ok, c, data, questions, review, suggested) ==
    [ok |-> ok, classification |-> c, extracted_data |-> data,
     candidate_questions |-> questions, requires_hr_review |-> review,
     suggested_reply |-> suggested]

NoAnalysis == Analysis(FALSE, None, NoData, FALSE, FALSE, None)

\* the analysis a reply was processed with, the asked_fields the handler read,
\* the keys that were asked and unanswered when the reply arrived, the reply
\* text and what the LLM chain gave for it
ReplyContext(a, asked, was_asked, text, llm) ==
    [analysis |-> a, asked_fields |-> asked, was_asked |-> was_asked,
     text |-> text, llm |-> llm]

NoReply == ReplyContext(NoAnalysis, <<>>, {}, {}, NoAnalysis)

\* the keys in state asked: asked and not answered
AskedState(d) == {d[i].key : i \in {j \in 1..Len(d) : d[j].asked /\ ~d[j].answered}}

(***************************************************************************)
(* Resume parsing: ResumeService.parse_resume_content                      *)
(***************************************************************************)
\* parsed_data as AIService.parse_resume_with_llm returns it: the cleaned LLM
\* JSON with confidence_scores (has_scores), or the regex fallback without.
ParsedData(n, e, p, y, c, ed, l, sk, hs) ==
    [name |-> n, email |-> e, phone |-> p, years_experience |-> y,
     current_company |-> c, education |-> ed, location |-> l, skills |-> sk,
     has_scores |-> hs]

ParsedDataInputs ==
    { ParsedData("Ada Lovelace", "ada@example.com", "+1-555-010-0000", "5",
                 "Acme", "BSc", "Austin", "[Python]", TRUE),
      ParsedData("Ada", "ada@localhost", None, None, None, None, None, "[]", TRUE),
      ParsedData("Ada Lovelace", None, None, None, None, None, "Remote", "[Python]", TRUE),
      ParsedData(None, "ada@example.com", None, None, None, None, None, "[]", FALSE) }

\* len(name.split()) of the names used
NameWords(n) == IF n = "Ada Lovelace" THEN 2 ELSE IF Truthy(n) THEN 1 ELSE 0

\* '@' in email and '.' in email.split('@')[1]
EmailHasDottedDomain(e) == e = "ada@example.com"

\* AIService._calculate_confidence_scores: only name and email are scored
AICalculateConfidenceScores(pd) ==
    [name |-> IF Truthy(pd.name)
              THEN (IF NameWords(pd.name) >= 2 THEN 95 ELSE 70) ELSE 0,
     email |-> IF Truthy(pd.email)
               THEN (IF EmailHasDottedDomain(pd.email) THEN 98 ELSE 50) ELSE 0]

\* parsed_data.get('confidence_scores', {}).get(parse_key, 0.0)
ConfidenceScoreOf(pd, parse_key) ==
    IF pd.has_scores /\ parse_key \in {"name", "email"}
    THEN AICalculateConfidenceScores(pd)[parse_key] ELSE 0

\* field_mapping of _create_conversation_state, in dict order
ResumeFieldMapping ==
    << <<"name", "name">>, <<"email", "email">>, <<"phone", "phone">>,
       <<"years_experience", "experience">>, <<"current_company", "currentCompany">>,
       <<"education", "education">>, <<"location", "location">> >>

ResumeFieldEntry(pd, parse_key, field_key) ==
    IF Truthy(pd[parse_key])
    THEN FieldState(field_key, pd[parse_key], ConfidenceScoreOf(pd, parse_key),
                    FALSE, ConfidenceScoreOf(pd, parse_key) > 50, "resume")
    ELSE FieldState(field_key, None, 0, FALSE, FALSE, None)

ResumeSkillsEntry(pd) ==
    FieldState("skills", pd.skills, ConfidenceScoreOf(pd, "skills"), FALSE,
               Truthy(pd.skills) /\ ConfidenceScoreOf(pd, "skills") > 50,
               IF Truthy(pd.skills) THEN "resume" ELSE None)

CreateConversationState(pd) ==
    Append([i \in 1..Len(ResumeFieldMapping) |->
                ResumeFieldEntry(pd, ResumeFieldMapping[i][1], ResumeFieldMapping[i][2])],
           ResumeSkillsEntry(pd))

\* ResumeService._calculate_completeness_score, as a percentage
CalculateCompletenessScore(pd) ==
    LET required == {"name", "email", "skills", "years_experience"}
        optional == {"phone", "current_company", "education", "location"}
        filled_required == Cardinality({f \in required : Truthy(pd[f])})
        filled_optional == Cardinality({f \in optional : Truthy(pd[f])})
    IN  Frac((filled_required * 15 + filled_optional * 10) * 100,
             (Cardinality(required) * 15 + Cardinality(optional) * 10))

ParseOverallConfidence(pd) ==
    IF pd.has_scores
    THEN Frac(AICalculateConfidenceScores(pd).name + AICalculateConfidenceScores(pd).email, 2)
    ELSE CalculateCompletenessScore(pd)

\* the conversation state must be (re)built: not candidate.conversation_state or reprocess
RebuildsState(present, reprocess) == ~present \/ reprocess

ParseEvidence(pd) ==
    LET cs == CreateConversationState(pd)
    IN  [k \in AllKeys |->
            IF HasKey(cs, k) /\ Get(cs, k).source # None
            THEN Evidence(Get(cs, k).value, Get(cs, k).confidence, "resume")
            ELSE NoEvidence]

\* the ParsedField rows of _update_candidate_with_parsed_data: the score of
\* the field, 0.8 when it has none (0.7 for skills), times 100
ResumeParsedFields(pd) ==
    { ParsedFieldRow(f, (IF pd.has_scores /\ f \in {"name", "email"}
                         THEN AICalculateConfidenceScores(pd)[f] ELSE 80) * 100,
                     "ai_parsing") :
        f \in {g \in {"name", "email", "phone", "years_experience", "current_company",
                      "education", "location"} : Truthy(pd[g])} }
    \cup (IF Truthy(pd.skills) THEN {ParsedFieldRow("skills", 70 * 100, "ai_parsing")}
          ELSE {})

\* the error of the completion step: job.metadata is the declarative base's
\* MetaData object (the column is job_metadata), which {**job.metadata} rejects
MetadataError == "'MetaData' object is not a mapping"

\* the text gate of parse_resume_content, on the stripped length of raw_text:
\* not raw_text or len(raw_text.strip()) < 50
MinTextLength == 50
InsufficientText(text) == text = 0 \/ text < MinTextLength

\* stripped lengths of the text _extract_text_from_file returns: an empty file,
\* a short note, and texts on both sides of 50 and of 100 characters
TextLengths == {0, 49, 50, 99, 100}

\* the two lengths next to the gate
GateTextLengths == {MinTextLength - 1, MinTextLength}

\* parse_resume_content on a resume whose text extraction gives fewer than 50
\* characters ("File not found", "Failed to download: 404", an empty file)
ParseResumeContentNoText(text) ==
    /\ RecordEvidence(NoEvidenceAtAll)
    /\ InsufficientText(text)
    /\ raw_text' = text
    /\ last_op' = "parse_resume_content"
    /\ last_job' = Job("failed", "Failed to extract text from resume")
    /\ UNCHANGED <<convVars, messages, last_reply, clsVars, workers, last_parsed_fields, extVars>>

\* parse_resume_content on a resume with sufficient text, through
\* _update_candidate_with_parsed_data: the completion step raises, the except
\* branch marks the job failed and commits the session, candidate included
ParseResumeContent(pd, reprocess, text) ==
    /\ RecordEvidence(IF RebuildsState(has_conversation_state, reprocess)
                      THEN ParseEvidence(pd) ELSE NoEvidenceAtAll)
    /\ ~InsufficientText(text)
    /\ raw_text' = text
    /\ IF RebuildsState(has_conversation_state, reprocess)
       THEN /\ fields' = CreateConversationState(pd)
            /\ has_conversation_state' = TRUE
       ELSE UNCHANGED <<fields, has_conversation_state>>
    /\ overall_confidence' = ParseOverallConfidence(pd)
    /\ last_op' = "parse_resume_content"
    /\ last_job' = Job("failed", MetadataError)
    /\ last_parsed_fields' = ResumeParsedFields(pd)
    /\ UNCHANGED extVars
    /\ UNCHANGED <<status, messages, last_reply, clsVars, workers>>

(***************************************************************************)
(* Background worker: process_resume_upload (mock parsed data)             *)
(***************************************************************************)
MockName == "Resume"
MockEmail == "candidate@example.com"
MockExperience == "7"
MockSkills == "[Python,JavaScript,React,FastAPI,PostgreSQL]"
MockLocations == {"San Francisco", "New York", "Remote"}

\* the worker's dict has no "source" key: FieldState(**entry) reads it as None
WorkerConversationState(loc) ==
    << FieldState("name", MockName, 90, FALSE, TRUE, None),
       FieldState("email", MockEmail, 90, FALSE, TRUE, None),
       FieldState("experience", MockExperience, 80, FALSE, TRUE, None),
       FieldState("skills", MockSkills, 90, FALSE, TRUE, None),
       FieldState("location", loc, 70, FALSE, FALSE, None) >>

WorkerEvidence(loc) ==
    LET cs == WorkerConversationState(loc)
    IN  [k \in AllKeys |->
            IF HasKey(cs, k)
            THEN Evidence(Get(cs, k).value, Get(cs, k).confidence, "resume")
            ELSE NoEvidence]

\* the ParsedField rows of the worker: confidence=85.0 for every parsed key
\* but skills
WorkerParsedFields ==
    { ParsedFieldRow(f, 8500, "resume") :
        f \in {"name", "email", "phone", "experience", "current_company", "education",
               "location"} }

\* the worker ignores its reprocess argument
ProcessResumeUpload(loc, reprocess) ==
    /\ RecordEvidence(IF ~has_conversation_state
                      THEN WorkerEvidence(loc) ELSE NoEvidenceAtAll)
    /\ IF ~has_conversation_state
       THEN /\ fields' = WorkerConversationState(loc)
            /\ has_conversation_state' = TRUE
       ELSE UNCHANGED <<fields, has_conversation_state>>
    /\ overall_confidence' = Frac(75, 1)
    /\ last_op' = "process_resume_upload"
    /\ last_job' = Job("completed", None)
    /\ last_parsed_fields' = WorkerParsedFields
    /\ UNCHANGED extVars
    /\ raw_text' = None
    /\ UNCHANGED <<status, messages, last_reply, clsVars, workers>>

(***************************************************************************)
(* Manual creation: CandidateService.create_candidate                      *)
(***************************************************************************)
CandidateCreate(n, e, p, y, sk, c, ed, l) ==
    [name |-> n, email |-> e, phone |-> p, years_experience |-> y, skills |-> sk,
     current_company |-> c, education |-> ed, location |-> l]

CandidateCreateInputs ==
    { CandidateCreate("Ada Lovelace", "ada@example.com", None, None, "[]", None, None, None),
      CandidateCreate("Ada Lovelace", "ada@example.com", "+1-555-010-0000", "5",
                      "[Python]", "Acme", "BSc", "Austin") }

\* candidate_fields of _initialize_conversation_state, in order
CandidateFields ==
    << <<"name", "name">>, <<"email", "email">>, <<"phone", "phone">>,
       <<"experience", "years_experience">>, <<"skills", "skills">>,
       <<"currentCompany", "current_company">>, <<"education", "education">>,
       <<"location", "location">> >>

ManualFieldEntry(field_key, value) ==
    IF value # None
    THEN FieldState(field_key, value, IF field_key \in {"name", "email"} THEN 90 ELSE 70,
                    FALSE, TRUE, "manual")
    ELSE FieldState(field_key, None, 0, FALSE, FALSE, None)

InitializeConversationState(data) ==
    [i \in 1..Len(CandidateFields) |->
        ManualFieldEntry(CandidateFields[i][1], data[CandidateFields[i][2]])]

\* CandidateService._calculate_overall_confidence, as a percentage
CalculateOverallConfidence(data) ==
    LET total_fields == 8
        filled_fields ==
            Cardinality({f \in {"name", "email", "phone", "skills", "current_company",
                                "education", "location"} : Truthy(data[f])})
            + (IF data.years_experience # None THEN 1 ELSE 0)
    IN  Frac(filled_fields * 100, total_fields)

CreateEvidence(data) ==
    LET cs == InitializeConversationState(data)
    IN  [k \in AllKeys |->
            IF HasKey(cs, k) /\ Get(cs, k).source # None
            THEN Evidence(Get(cs, k).value, Get(cs, k).confidence, "manual")
            ELSE NoEvidence]

CreateCandidate(data) ==
    /\ RecordEvidence(IF ~has_conversation_state
                      THEN CreateEvidence(data) ELSE NoEvidenceAtAll)
    /\ IF ~has_conversation_state
       THEN /\ fields' = InitializeConversationState(data)
            /\ has_conversation_state' = TRUE
       ELSE UNCHANGED <<fields, has_conversation_state>>
    /\ overall_confidence' = CalculateOverallConfidence(data)
    /\ last_op' = "create_candidate"
    /\ UNCHANGED <<status, messages, last_reply, clsVars, jobVars, last_parsed_fields, extVars>>
    /\ raw_text' = None

(***************************************************************************)
(* Manual state update: CandidateService.update_conversation_state         *)
(***************************************************************************)
\* CandidateService._calculate_candidate_confidence: the mean of the non-zero
\* confidences, as a percentage
CalculateCandidateConfidence(present, d) ==
    IF ~present THEN Frac(0, 1)
    ELSE LET nonzero == SelectSeq(d, LAMBDA f : f.confidence > 0)
             total_confidence == SumSeq([i \in 1..Len(nonzero) |-> nonzero[i].confidence])
             field_count == Len(nonzero)
         IN  IF field_count > 0 THEN Frac(total_confidence, field_count) ELSE Frac(0, 1)

ManualKeys == {"location", "expected_salary"}

ManualValue(k) == IF k = "location" THEN {"Austin"} ELSE {"$120k"}

\* the FieldState bodies offered by a recruiter (confidence within the
\* schema's [0,1]); each is well formed: answered = confidence > 0.5
ManualFieldStates(k) ==
    { FieldState(k, v, c, FALSE, c > 50, "manual") : v \in ManualValue(k), c \in {40, 90, 100} }
    \cup { FieldState(k, v, 40, FALSE, FALSE, "reply") : v \in ManualValue(k) }
    \cup { FieldState(k, None, 0, FALSE, FALSE, None) }

UpdateEvidence(fs) ==
    [k \in AllKeys |->
        IF k = fs.key /\ fs.source # None
        THEN Evidence(fs.value, fs.confidence, fs.source) ELSE NoEvidence]

UpdateConversationState(fs) ==
    /\ RecordEvidence(UpdateEvidence(fs))
    /\ fields' = Put(fields, fs)
    /\ has_conversation_state' = TRUE
    /\ overall_confidence' = CalculateCandidateConfidence(TRUE, Put(fields, fs))
    /\ last_op' = "update_conversation_state"
    /\ UNCHANGED <<status, messages, last_reply, clsVars, jobVars, last_parsed_fields, extVars>>
    /\ raw_text' = None

(***************************************************************************)
(* Messages                                                                *)
(***************************************************************************)
\* A Message row.  asked_none: asked_fields is None (the field is then <<>>).
\* origin and reply_to are history: the operation that created the row and,
\* for a response, the index of the incoming message it responds to.
Message(dir, asked, asked_none, review, approved, by, origin, reply_to) ==
    [direction |-> dir, asked_fields |-> asked, asked_none |-> asked_none,
     requires_hr_review |-> review, hr_approved |-> approved, generated_by |-> by,
     origin |-> origin, reply_to |-> reply_to]

OutgoingIdx(msgs) == {i \in 1..Len(msgs) : msgs[i].direction = "outgoing"}

HasOutgoing(msgs) == OutgoingIdx(msgs) # {}

\* order_by(desc(Message.timestamp)).first() over the outgoing messages
LastOutgoing(msgs) ==
    msgs[CHOOSE i \in OutgoingIdx(msgs) : \A j \in OutgoingIdx(msgs) : j <= i]

AskedInputs ==
    { <<>>, <<"location">>, <<"expected_salary">>, <<"location", "expected_salary">> }

RECURSIVE MarkAsked(_, _)
\* for field in asked_fields: if field in fields: fields[field]["asked"] = True
MarkAsked(d, asked) ==
    IF asked = <<>> THEN d
    ELSE LET field == Head(asked)
             d1 == IF HasKey(d, field)
                   THEN [d EXCEPT ![IndexOf(d, field)].asked = TRUE]
                   ELSE d
         IN  MarkAsked(d1, Tail(asked))

\* if asked_fields and candidate.conversation_state: mark the asked fields
FieldsAfterSend(present, d, asked, asked_none) ==
    IF ~asked_none /\ asked # <<>> /\ present THEN MarkAsked(d, asked) ELSE d

\* MessagingService.send_whatsapp_message, mode "mock"
SendWhatsappMessage(asked, asked_none, by) ==
    /\ RecordEvidence(NoEvidenceAtAll)
    /\ Len(messages) < MaxMessages
    /\ messages' = Append(messages,
           Message("outgoing", asked, asked_none, FALSE, FALSE, by, "send_whatsapp_message", 0))
    /\ status' = "contacted"
    /\ fields' = FieldsAfterSend(has_conversation_state, fields, asked, asked_none)
    /\ last_op' = "send_whatsapp_message"
    /\ UNCHANGED <<has_conversation_state, overall_confidence, last_reply, clsVars, jobVars, last_parsed_fields, extVars>>
    /\ raw_text' = None

\* api/messaging.py send_message: payload.asked_fields is a list (default [])
SendMessage(asked) ==
    /\ RecordEvidence(NoEvidenceAtAll)
    /\ Len(messages) < MaxMessages
    /\ messages' = Append(messages,
           Message("outgoing", asked, FALSE, FALSE, FALSE, "ai", "send_message", 0))
    /\ status' = "contacted"
    /\ fields' = FieldsAfterSend(has_conversation_state, fields, asked, FALSE)
    /\ last_op' = "send_message"
    /\ UNCHANGED <<has_conversation_state, overall_confidence, last_reply, clsVars, jobVars, last_parsed_fields, extVars>>
    /\ raw_text' = None

(***************************************************************************)
(* Reply texts and the deterministic classifiers                           *)
(***************************************************************************)
\* A reply text is the set of phrases it is made of.
Phrases ==
    {"Not interested", "no thanks", "?", "What's", "salary", "remote", "yes",
     "Sure", "more info", "clarify", "thanks", "$120k"}

\* str.lower() on a phrase
Lower(p) ==
    CASE p = "Not interested" -> "not interested"
      [] p = "What's" -> "what's"
      [] p = "Sure" -> "sure"
      [] OTHER -> p

LowerText(text) == {Lower(p) : p \in text}

\* the proper-substring pairs <<needle, phrase>> among the lowered phrases
SubstringPairs ==
    { <<"interested", "not interested">>, <<"what", "what's">>,
      <<"clarif", "clarify">>, <<"thanks", "no thanks">> }

\* needle in lower_text
In(needle, lower_text) ==
    \E p \in lower_text : p = needle \/ <<needle, p>> \in SubstringPairs

\* any(x in lower_text for x in needles)
AnyIn(needles, lower_text) == \E n \in needles : In(n, lower_text)

QuestionIndicators ==
    {"?", "what", "when", "how", "salary", "compensation", "package", "pay",
     "benefits", "remote", "hybrid", "location", "why", "who", "which"}
DeclinePhrases == {"not interested", "no thanks", "pass", "decline"}
CompensationWords == {"salary", "compensation", "pay", "package"}
ArrangementWords == {"remote", "hybrid", "office"}
AffirmativeWords == {"yes", "interested", "available", "sure"}
ClarificationWords == {"clarif", "more info"}

ReplyCompensation ==
    "Great question! The compensation range is competitive. Would you like to discuss further?"
ReplyArrangement == "This role offers flexible work arrangements. Happy to discuss details."
ReplyGenericQuestion == "Thanks for your question! I'd be happy to provide more details."

Classified(by, c, suggested, review, ai_suggested) ==
    [by |-> by, classification |-> c, suggested_reply |-> suggested,
     requires_hr_review |-> review, ai_suggested_reply |-> ai_suggested]

NoResult == Classified("none", None, None, FALSE, None)

\* the if/elif chain of api/messaging.py receive_reply
ReceiveReplyBranch(lower_text) ==
    IF AnyIn(DeclinePhrases, lower_text) THEN "decline"
    ELSE IF AnyIn(QuestionIndicators, lower_text) THEN "question"
    ELSE IF AnyIn(AffirmativeWords, lower_text) THEN "affirmative"
    ELSE IF AnyIn(ClarificationWords, lower_text) THEN "clarification"
    ELSE "default"

QuestionReply(lower_text) ==
    IF AnyIn(CompensationWords, lower_text) THEN ReplyCompensation
    ELSE IF AnyIn(ArrangementWords, lower_text) THEN ReplyArrangement
    ELSE ReplyGenericQuestion

ReceiveReplyClassify(text) ==
    LET lower_text == LowerText(text)
        branch == ReceiveReplyBranch(lower_text)
    IN  CASE branch = "decline" ->
               Classified("receive_reply", "not_interested",
                          "Thank you for your time. We'll keep your profile on file.",
                          FALSE, None)
          [] branch = "question" ->
               Classified("receive_reply", "question", QuestionReply(lower_text), TRUE,
                          QuestionReply(lower_text))
          [] branch = "affirmative" ->
               Classified("receive_reply", "interested",
                          "Fantastic! Let's schedule a call to discuss further.", FALSE, None)
          [] branch = "clarification" ->
               Classified("receive_reply", "needs_clarification",
                          "Of course! Let me provide more details: ", FALSE, None)
          [] OTHER ->
               Classified("receive_reply", "interested", "Thank you for your interest! ",
                          FALSE, None)

\* AIService._analyze_reply_fallback
FallbackClassification(text) ==
    LET text_lower == LowerText(text)
    IN  IF AnyIn({"not interested", "no thanks"}, text_lower) THEN "not_interested"
        ELSE IF In("?", text_lower) THEN "question"
        ELSE "interested"

AnalyzeReplyFallback(text) ==
    Classified("_analyze_reply_fallback", FallbackClassification(text), None,
               FallbackClassification(text) = "question", None)

(***************************************************************************)
(* Incoming replies                                                        *)
(***************************************************************************)
\* what the LLM chain of analyze_candidate_reply may give back: a parsed JSON
\* analysis, or a failure (exception, or output that is not JSON)
LLMFailure == Analysis(FALSE, None, NoData, FALSE, FALSE, None)

LLMOutcomes ==
    { LLMFailure,
      Analysis(TRUE, "interested", [NoData EXCEPT !["location"] = "Remote"],
               FALSE, FALSE, "Thanks for the update!"),
      Analysis(TRUE, "interested", [NoData EXCEPT !["location"] = None],
               FALSE, FALSE, None),
      Analysis(TRUE, "question", NoData, TRUE, FALSE, None),
      Analysis(TRUE, "needs_clarification", [NoData EXCEPT !["expectedSalary"] = "$90k"],
               FALSE, TRUE, "Let me clarify."),
      Analysis(TRUE, "not_interested", NoData, FALSE, FALSE, None) }

ReplyTexts == { {}, {"$120k"}, {"?"} }

\* AIService._extract_structured_data_regex: a 2-3 digit number is a salary
ExtractStructuredDataRegex(text) ==
    IF "$120k" \in text THEN [NoData EXCEPT !["expected_salary"] = "$120k"] ELSE NoData

\* extracted_data.update(other)
DictUpdate(data, other) ==
    [k \in ExtractedKeys |-> IF other[k] # Absent THEN other[k] ELSE data[k]]

\* AIService._generate_question_response on a non-empty question list
QuestionResponse ==
    "Thanks for your question! Let me get you the information you need. Could we schedule a quick call?"

\* analyze_candidate_reply without its except branch: the failure of the LLM
\* chain reaches the caller
AnalyzeCandidateReplyNoFallback(text, llm, asked_none) ==
    IF ~llm.ok \/ asked_none
    THEN NoAnalysis
    ELSE Analysis(TRUE, llm.classification,
                  DictUpdate(llm.extracted_data, ExtractStructuredDataRegex(text)),
                  llm.candidate_questions,
                  llm.requires_hr_review \/ llm.candidate_questions,
                  IF llm.candidate_questions /\ ~Truthy(llm.suggested_reply)
                  THEN QuestionResponse ELSE llm.suggested_reply)

\* AIService.analyze_candidate_reply; asked_none: asked_fields is None, on
\* which ", ".join(asked_fields) raises inside the try block
AnalyzeCandidateReply(text, llm, asked_none) ==
    IF ~llm.ok \/ asked_none
    THEN LET fb == AnalyzeReplyFallback(text)
         IN  Analysis(TRUE, fb.classification, NoData, FALSE, fb.requires_hr_review,
                      fb.suggested_reply)
    ELSE Analysis(TRUE, llm.classification,
                  DictUpdate(llm.extracted_data, ExtractStructuredDataRegex(text)),
                  llm.candidate_questions,
                  llm.requires_hr_review \/ llm.candidate_questions,
                  IF llm.candidate_questions /\ ~Truthy(llm.suggested_reply)
                  THEN QuestionResponse ELSE llm.suggested_reply)

\* MessagingService._map_to_conversation_key
MapToConversationKey(field) ==
    CASE field = "location" -> "location"
      [] field = "notice_period" -> "noticePeriod"
      [] field = "expected_salary" -> "expectedSalary"
      [] field = "portfolio_url" -> "portfolioUrl"
      [] field = "experience" -> "experience"
      [] field = "skills" -> "skills"
      [] OTHER -> field

\* field_key in extracted_data
InData(data, field_key) == field_key \in ExtractedKeys /\ data[field_key] # Absent

\* the loop body with an else branch that clears asked
FieldAfterReplyClearsAsked(fs, data) ==
    LET field_key == MapToConversationKey(fs.key)
    IN  IF InData(data, field_key)
        THEN [fs EXCEPT !.answered = TRUE, !.value = data[field_key],
                        !.confidence = 90, !.source = "reply"]
        ELSE [fs EXCEPT !.asked = FALSE, !.answered = FALSE]

\* the body of the loop of _update_conversation_state_from_reply for a field
\* that is in the conversation state
FieldAfterReply(fs, data) ==
    LET field_key == MapToConversationKey(fs.key)
    IN  IF InData(data, field_key)
        THEN [fs EXCEPT !.answered = TRUE, !.value = data[field_key],
                        !.confidence = 90, !.source = "reply"]
        ELSE [fs EXCEPT !.asked = TRUE, !.answered = FALSE]

RECURSIVE FieldsAfterReply(_, _, _)
FieldsAfterReply(d, asked, data) ==
    IF asked = <<>> THEN d
    ELSE LET field == Head(asked)
             d1 == IF HasKey(d, field)
                   THEN [d EXCEPT ![IndexOf(d, field)] = FieldAfterReply(d[IndexOf(d, field)], data)]
                   ELSE d
         IN  FieldsAfterReply(d1, Tail(asked), data)

\* the recalculation that ends _update_conversation_state_from_reply
ReplyOverallConfidence(d, before) ==
    IF Len(d) > 0
    THEN Frac(Cardinality({i \in 1..Len(d) : Truthy(d[i].value)}) * 100, Len(d))
    ELSE before

ReplyEvidence(d, asked, data) ==
    [k \in AllKeys |->
        IF (\E i \in 1..Len(asked) : asked[i] = k) /\ HasKey(d, k)
           /\ InData(data, MapToConversationKey(k))
        THEN Evidence(data[MapToConversationKey(k)], 90, "reply")
        ELSE NoEvidence]

\* the condition without its review test
SendsAutoReplyIgnoringReview(a) == Truthy(a.suggested_reply)

\* MessagingService._update_candidate_from_extracted_data: a ParsedField row
\* with confidence=85.0 for every mapped key that carries a truthy value
ReplyParsedFields(data) ==
    { ParsedFieldRow(k, 8500, "reply_analysis") :
        k \in {f \in {"location", "expected_salary"} : InData(data, f) /\ Truthy(data[f])} }

\* if not requires_hr_review and analysis.get("suggested_reply")
SendsAutoReply(a) == ~a.requires_hr_review /\ Truthy(a.suggested_reply)

\* the asked_fields process_incoming_reply reads from the last outgoing message
AskedOfLastOutgoing(msgs) ==
    IF HasOutgoing(msgs) THEN LastOutgoing(msgs).asked_fields ELSE <<>>

AskedIsNone(msgs) == HasOutgoing(msgs) /\ LastOutgoing(msgs).asked_none

\* MessagingService.process_incoming_reply
ProcessIncomingReply(text, llm) ==
    LET asked == AskedOfLastOutgoing(messages)
        a == AnalyzeCandidateReply(text, llm, FALSE)
        incoming == Message("incoming", <<>>, FALSE, a.requires_hr_review, FALSE, None,
                            "process_incoming_reply", 0)
        auto_reply == Message("outgoing", <<>>, TRUE, FALSE, FALSE, "ai_auto",
                              "auto_reply", Len(messages) + 1)
    IN  /\ RecordEvidence(ReplyEvidence(fields, asked, a.extracted_data))
        /\ ~AskedIsNone(messages)
        /\ Len(messages) + (IF SendsAutoReply(a) THEN 2 ELSE 1) <= MaxMessages
        /\ messages' = IF SendsAutoReply(a)
                       THEN Append(Append(messages, incoming), auto_reply)
                       ELSE Append(messages, incoming)
        /\ status' = IF SendsAutoReply(a) THEN "contacted"
                     ELSE IF ~a.requires_hr_review THEN a.classification
                     ELSE status
        /\ has_conversation_state' = TRUE
        /\ fields' = FieldsAfterReply(fields, asked, a.extracted_data)
        /\ overall_confidence' =
               ReplyOverallConfidence(FieldsAfterReply(fields, asked, a.extracted_data),
                                      overall_confidence)
        /\ last_reply' = ReplyContext(a, asked, AskedState(fields), text, llm)
        /\ last_op' = "process_incoming_reply"
        /\ last_parsed_fields' = ReplyParsedFields(a.extracted_data)
        /\ UNCHANGED extVars
        /\ raw_text' = None
        /\ UNCHANGED <<clsVars, jobVars>>

\* process_incoming_reply when the last outgoing message has asked_fields
\* None: iterating it raises, the handler rolls back and nothing is stored
ProcessIncomingReplyFails ==
    /\ RecordEvidence(NoEvidenceAtAll)
    /\ AskedIsNone(messages)
    /\ last_op' = "process_incoming_reply_failed"
    /\ UNCHANGED <<convVars, messages, last_reply, clsVars, jobVars, last_parsed_fields, extVars>>
    /\ raw_text' = None

\* api/messaging.py receive_reply
ReceiveReply(text) ==
    LET r == ReceiveReplyClassify(text)
    IN  /\ RecordEvidence(NoEvidenceAtAll)
        /\ Len(messages) < MaxMessages
        /\ messages' = Append(messages,
               Message("incoming", <<>>, FALSE, r.requires_hr_review, FALSE, None,
                       "receive_reply", 0))
        /\ status' = IF ~r.requires_hr_review THEN r.classification ELSE status
        /\ last_reply' = ReplyContext(NoAnalysis, AskedOfLastOutgoing(messages),
                                       AskedState(fields), text, NoAnalysis)
        /\ last_op' = "receive_reply"
        /\ UNCHANGED <<has_conversation_state, fields, overall_confidence, clsVars, jobVars, last_parsed_fields, extVars>>
        /\ raw_text' = None

(***************************************************************************)
(* HR approval                                                             *)
(***************************************************************************)
\* the query of approve_and_send and handle_candidate_question
NeedsReview(msgs, i) ==
    /\ i \in 1..Len(msgs)
    /\ msgs[i].direction = "incoming"
    /\ msgs[i].requires_hr_review

\* api/messaging.py approve_and_send
ApproveAndSend(i) ==
    /\ RecordEvidence(NoEvidenceAtAll)
    /\ NeedsReview(messages, i)
    /\ Len(messages) < MaxMessages
    /\ messages' = Append([messages EXCEPT ![i].hr_approved = TRUE],
           Message("outgoing", <<>>, FALSE, FALSE, FALSE, "ai", "approve_and_send", i))
    /\ last_op' = "approve_and_send"
    /\ UNCHANGED <<convVars, last_reply, clsVars, jobVars, last_parsed_fields, extVars>>
    /\ raw_text' = None

\* MessagingService.handle_candidate_question
HandleCandidateQuestion(i) ==
    /\ RecordEvidence(NoEvidenceAtAll)
    /\ NeedsReview(messages, i)
    /\ Len(messages) < MaxMessages
    /\ messages' = Append([messages EXCEPT ![i].hr_approved = TRUE],
           Message("outgoing", <<>>, TRUE, FALSE, FALSE, "hr", "handle_candidate_question", i))
    /\ status' = "contacted"
    /\ last_op' = "handle_candidate_question"
    /\ UNCHANGED <<has_conversation_state, fields, overall_confidence,
                   last_reply, clsVars, jobVars, last_parsed_fields, extVars>>
    /\ raw_text' = None

\* one classification of the text at hand by the receive_reply chain
ClassifyReceiveReply ==
    /\ reply_result.by = "none"
    /\ reply_result' = ReceiveReplyClassify(reply_text)
    /\ UNCHANGED <<reply_text, convVars, messages, histVars, ops, jobVars, last_parsed_fields, extVars>>
    /\ raw_text' = None

\* one classification of the text at hand by the fallback analysis
ClassifyFallback ==
    /\ reply_result.by = "none"
    /\ reply_result' = AnalyzeReplyFallback(reply_text)
    /\ UNCHANGED <<reply_text, convVars, messages, histVars, ops, jobVars, last_parsed_fields, extVars>>
    /\ raw_text' = None

InitClassify ==
    /\ reply_text \in SUBSET Phrases
    /\ reply_result = NoResult
    /\ has_conversation_state = FALSE
    /\ fields = <<>>
    /\ status = "new"
    /\ overall_confidence = Frac(0, 1)
    /\ messages = <<>>
    /\ max_evidence = [k \in AllKeys |-> 0]
    /\ last_evidence = NoEvidenceAtAll
    /\ last_op = "none"
    /\ last_reply = NoReply
    /\ ops = 0
    /\ last_job = NoJob
    /\ workers = <<>>
    /\ last_parsed_fields = {}
    /\ raw_text = None
    /\ extraction = NoExtraction
    /\ jobs = <<>>
    /\ last_retry = NoRetry
    /\ auth = NoLogins

NextClassify == ClassifyReceiveReply \/ ClassifyFallback

SpecClassify == InitClassify /\ [][NextClassify]_vars

(***************************************************************************)
(* PDF text extraction                                                     *)
(***************************************************************************)
\* the texts an attempt can give: nothing, a short text, and texts around the
\* threshold (99, 100 and 101 characters plus the trailing newline), a long one
TextOutputs == {EmptyText, Text(51, 50), Text(100, 99), Text(101, 100),
                Text(102, 101), Text(2001, 2000)}
AttemptOutputs == TextOutputs \cup {AttemptFails}

\* the list text_methods: the outputs of the text-layer attempts that did not
\* raise (and did not return at once), in order
TextMethods(primary, secondary) ==
    (IF primary.raised THEN <<>> ELSE <<primary>>) \o
    (IF secondary.raised THEN <<>> ELSE <<secondary>>)

\* max(text_methods, key=len) if text_methods else "": the first longest one
MaxByLen(q) ==
    IF q = <<>> THEN EmptyText
    ELSE q[CHOOSE i \in 1..Len(q) : \A j \in 1..Len(q) :
                 /\ q[j].len <= q[i].len
                 /\ j < i => q[j].len < q[i].len]

Extracted(tried, result) == [tried |-> tried, result |-> result]

\* ResumeParser._extract_from_pdf
ExtractFromPdf(primary, secondary, ocr, use_ocr) ==
    LET text_methods == TextMethods(primary, secondary)
    IN  IF ~primary.raised /\ primary.strip > SufficientChars
        THEN Extracted({"primary"}, primary)
        ELSE IF ~secondary.raised /\ secondary.strip > SufficientChars
        THEN Extracted({"primary", "secondary"}, secondary)
        ELSE IF use_ocr /\ (IF text_methods # <<>> THEN text_methods[1].len ELSE 0)
                               < SufficientChars
        THEN Extracted({"primary", "secondary", "ocr"},
                       IF ocr.len > 0 /\ ocr.strip > SufficientChars
                       THEN ocr ELSE MaxByLen(text_methods))
        ELSE Extracted({"primary", "secondary"}, MaxByLen(text_methods))

\* ResumeService._extract_text_from_pdf: PyPDF2, "" when it raises
ExtractTextFromPdf(secondary) == IF secondary.raised THEN EmptyText ELSE secondary

\* the pdf branch of ResumeService._extract_text_from_file
ExtractTextFromFile(secondary, ocr) ==
    LET text == ExtractTextFromPdf(secondary)
    IN  IF text.strip > SufficientChars
        THEN Extracted({"secondary"}, text)
        ELSE Extracted({"secondary", "ocr"}, ocr)

ExtractionInputs ==
    {Extraction(primary, secondary, ocr, use_ocr, "none", {}, EmptyText) :
        primary \in AttemptOutputs, secondary \in AttemptOutputs,
        ocr \in TextOutputs, use_ocr \in BOOLEAN}

\* the parser extracts the document
ParserExtracts ==
    /\ extraction.by = "none"
    /\ LET e == extraction
           out == ExtractFromPdf(e.primary, e.secondary, e.ocr, e.use_ocr)
       IN  extraction' = Extraction(e.primary, e.secondary, e.ocr, e.use_ocr,
                                    "_extract_from_pdf", out.tried, out.result)
    /\ UNCHANGED <<coreVars, jobs, last_retry, auth>>

\* the service extracts the document
ServiceExtracts ==
    /\ extraction.by = "none"
    /\ LET e == extraction
           out == ExtractTextFromFile(e.secondary, e.ocr)
       IN  extraction' = Extraction(e.primary, e.secondary, e.ocr, e.use_ocr,
                                    "_extract_text_from_file", out.tried, out.result)
    /\ UNCHANGED <<coreVars, jobs, last_retry, auth>>

InitExtract ==
    /\ extraction \in ExtractionInputs
    /\ has_conversation_state = FALSE
    /\ fields = <<>>
    /\ status = "new"
    /\ overall_confidence = Frac(0, 1)
    /\ messages = <<>>
    /\ max_evidence = [k \in AllKeys |-> 0]
    /\ last_evidence = NoEvidenceAtAll
    /\ last_op = "none"
    /\ last_reply = NoReply
    /\ reply_text = {}
    /\ reply_result = NoResult
    /\ ops = 0
    /\ last_job = NoJob
    /\ workers = <<>>
    /\ last_parsed_fields = {}
    /\ raw_text = None
    /\ jobs = <<>>
    /\ last_retry = NoRetry
    /\ auth = NoLogins

NextExtract == ParserExtracts \/ ServiceExtracts

SpecExtract == InitExtract /\ [][NextExtract]_vars

(***************************************************************************)
(* Jobs: the worker functions, JobService and the job rows                 *)
(***************************************************************************)
MaxJobs == 1

JobStatuses == {"queued", "processing", "completed", "failed"}

\* the jobs the endpoints queue and hand to a thread, with the row their
\* worker will not find
QueuedJobs ==
    {JobRow(kind, missing) :
        kind \in {"process_resume_upload", "parse_resume_content"},
        missing \in {"none", "resume", "candidate"}}
    \cup {JobRow("send_message_job", missing) : missing \in {"none", "message"}}

\* an endpoint creates the job row and starts its worker
QueueJob(row) ==
    /\ Len(jobs) < MaxJobs
    /\ jobs' = Append(jobs, row)
    /\ UNCHANGED <<coreVars, extraction, last_retry, auth>>

\* process_resume_upload: the job is found and set to processing
ProcessResumeUploadStarts(j) ==
    /\ j \in DOMAIN jobs
    /\ jobs[j].kind = "process_resume_upload" /\ jobs[j].pc = "start"
    /\ jobs' = [jobs EXCEPT ![j].status = "processing", ![j].pc = "processing"]
    /\ UNCHANGED <<coreVars, extraction, last_retry, auth>>

\* process_resume_upload: the resume is looked up
ProcessResumeUploadLoadsResume(j) ==
    /\ j \in DOMAIN jobs
    /\ jobs[j].kind = "process_resume_upload" /\ jobs[j].pc = "processing"
    /\ jobs' = IF jobs[j].missing = "resume"
               THEN [jobs EXCEPT ![j].status = "failed", ![j].error = "Resume not found",
                                 ![j].pc = "done"]
               ELSE [jobs EXCEPT ![j].pc = "parsing"]
    /\ UNCHANGED <<coreVars, extraction, last_retry, auth>>

\* process_resume_upload: the candidate, if there is one, is written and the
\* job is completed in one commit
ProcessResumeUploadCompletes(j) ==
    /\ j \in DOMAIN jobs
    /\ jobs[j].kind = "process_resume_upload" /\ jobs[j].pc = "parsing"
    /\ jobs' = [jobs EXCEPT ![j].status = "completed", ![j].pc = "done",
                            ![j].updated_candidate = jobs[j].missing # "candidate"]
    /\ UNCHANGED <<coreVars, extraction, last_retry, auth>>

\* send_message_job: job and message are looked up, the job is set to processing
SendMessageJobStarts(j) ==
    /\ j \in DOMAIN jobs
    /\ jobs[j].kind = "send_message_job" /\ jobs[j].pc = "start"
    /\ jobs' = IF jobs[j].missing = "message"
               THEN [jobs EXCEPT ![j].pc = "done"]
               ELSE [jobs EXCEPT ![j].status = "processing", ![j].pc = "processing"]
    /\ UNCHANGED <<coreVars, extraction, last_retry, auth>>

\* send_message_job: the message is marked sent and the job completed
SendMessageJobCompletes(j) ==
    /\ j \in DOMAIN jobs
    /\ jobs[j].kind = "send_message_job" /\ jobs[j].pc = "processing"
    /\ jobs' = [jobs EXCEPT ![j].status = "completed", ![j].pc = "done"]
    /\ UNCHANGED <<coreVars, extraction, last_retry, auth>>

\* parse_resume_content: job, resume and candidate are looked up; with one of
\* them missing the function returns False, else the job is set to processing
ParseResumeContentStarts(j) ==
    /\ j \in DOMAIN jobs
    /\ jobs[j].kind = "parse_resume_content" /\ jobs[j].pc = "start"
    /\ jobs' = IF jobs[j].missing # "none"
               THEN [jobs EXCEPT ![j].pc = "done"]
               ELSE [jobs EXCEPT ![j].status = "processing", ![j].pc = "processing"]
    /\ UNCHANGED <<coreVars, extraction, last_retry, auth>>

\* parse_resume_content: the text is extracted and tested
ParseResumeContentExtracts(j, text) ==
    /\ j \in DOMAIN jobs
    /\ jobs[j].kind = "parse_resume_content" /\ jobs[j].pc = "processing"
    /\ jobs' = IF InsufficientText(text)
               THEN [jobs EXCEPT ![j].status = "failed",
                                 ![j].error = "Failed to extract text from resume",
                                 ![j].pc = "done"]
               ELSE [jobs EXCEPT ![j].pc = "parsing"]
    /\ UNCHANGED <<coreVars, extraction, last_retry, auth>>

\* parse_resume_content: the candidate is written, the completion step raises
\* and the except branch commits the job as failed
ParseResumeContentFinishes(j) ==
    /\ j \in DOMAIN jobs
    /\ jobs[j].kind = "parse_resume_content" /\ jobs[j].pc = "parsing"
    /\ jobs' = [jobs EXCEPT ![j].status = "failed", ![j].error = MetadataError,
                            ![j].pc = "done", ![j].updated_candidate = TRUE]
    /\ UNCHANGED <<coreVars, extraction, last_retry, auth>>

\* the text of an exception raised inside a worker, str(e)
ExceptionText == "connection reset"

\* the except branch of a worker: an exception after the job was set to
\* processing marks it failed with str(e)
WorkerRaises(j) ==
    /\ j \in DOMAIN jobs
    /\ jobs[j].pc \in {"processing", "parsing"}
    /\ jobs' = [jobs EXCEPT ![j].status = "failed", ![j].error = ExceptionText,
                            ![j].pc = "done"]
    /\ UNCHANGED <<coreVars, extraction, last_retry, auth>>

\* the steps of the worker of job j
WorkerStep(j) ==
    \/ ProcessResumeUploadStarts(j)
    \/ ProcessResumeUploadLoadsResume(j)
    \/ ProcessResumeUploadCompletes(j)
    \/ SendMessageJobStarts(j)
    \/ SendMessageJobCompletes(j)
    \/ ParseResumeContentStarts(j)
    \/ \E text \in TextLengths : ParseResumeContentExtracts(j, text)
    \/ ParseResumeContentFinishes(j)

\* JobService.update_job_status(db, job_id, organization_id, status, error=error)
UpdateJobStatus(j, st, error) ==
    /\ j \in DOMAIN jobs
    /\ jobs' = [jobs EXCEPT ![j].status = st,
                            ![j].error = IF Truthy(error) THEN error ELSE jobs[j].error]
    /\ UNCHANGED <<coreVars, extraction, last_retry, auth>>

\* JobService.cancel_job on a job its query finds
CancelJob(j) ==
    /\ j \in DOMAIN jobs
    /\ jobs[j].status \in {"queued", "processing"}
    /\ jobs' = [jobs EXCEPT ![j].status = "failed", ![j].error = "Cancelled by user"]
    /\ UNCHANGED <<coreVars, extraction, last_retry, auth>>

\* JobService.retry_failed_job on a job its query finds. original_job.metadata
\* is the declarative base's MetaData object unless this Job instance was built
\* with a metadata keyword in the same session; unpacking MetaData raises
\* TypeError. Past that, new_job carries no organization_id, which the jobs
\* table requires, and the commit raises IntegrityError: no row is added.
RetryFailedJob(j, metadata_is_mapping) ==
    /\ j \in DOMAIN jobs
    /\ last_retry' = Retry(j, IF metadata_is_mapping THEN "IntegrityError" ELSE "TypeError")
    /\ UNCHANGED <<coreVars, extraction, jobs, auth>>

NextJobs ==
    \/ \E row \in QueuedJobs : QueueJob(row)
    \/ \E j \in 1..MaxJobs : WorkerStep(j)
    \/ \E j \in 1..MaxJobs : WorkerRaises(j)
    \/ \E j \in 1..MaxJobs, st \in JobStatuses, error \in {None, "", ExceptionText} :
           UpdateJobStatus(j, st, error)
    \/ \E j \in 1..MaxJobs : CancelJob(j)
    \/ \E j \in 1..MaxJobs, metadata_is_mapping \in BOOLEAN :
           RetryFailedJob(j, metadata_is_mapping)

(***************************************************************************)
(* Login: account lock on failed attempts (api/auth.py)                    *)
(***************************************************************************)
MaxFailedAttempts == 3
MaxClock == 3

\* the HTTP statuses of the login handler
HTTP_401_UNAUTHORIZED == 401
HTTP_403_FORBIDDEN == 403
HTTP_423_LOCKED == 423
HTTP_500_INTERNAL_SERVER_ERROR == 500

\* check_account_lock: whether the email is locked at `now`, and the caches
\* after the call (an expired lock is removed with the attempt history)
CheckAccountLock(failed_attempts, lock_until, now) ==
    IF lock_until # None
    THEN IF now < lock_until
         THEN [is_locked |-> TRUE, failed_attempts |-> failed_attempts,
               lock_until |-> lock_until]
         ELSE [is_locked |-> FALSE, failed_attempts |-> <<>>, lock_until |-> None]
    ELSE [is_locked |-> FALSE, failed_attempts |-> failed_attempts,
          lock_until |-> lock_until]

\* track_failed_attempt: the attempt is appended to the cache; the next
\* statement reads settings.ACCOUNT_LOCK_WINDOW_MINUTES, which Settings does
\* not define (nor MAX_LOGIN_ATTEMPTS, nor ACCOUNT_LOCK_DURATION_MINUTES), so
\* the call raises AttributeError there: the window is not pruned and
\* _account_lock_cache is never written
TrackFailedAttempt(failed_attempts, lock_until, now) ==
    [failed_attempts |-> Append(failed_attempts, now), lock_until |-> lock_until,
     raised |-> TRUE]

\* clear_failed_attempts
ClearFailedAttempts == [failed_attempts |-> <<>>, lock_until |-> None]

\* the requests that end in track_failed_attempt: no user of that email, or
\* an active user and a wrong password
TracksFailure(user, password) == user = "absent" \/ (user = "active" /\ password = "wrong")

\* the login handler for the email: the user is absent or present and active
\* or not, the password right or wrong
Login(user, password) ==
    LET checked == CheckAccountLock(auth.failed_attempts, auth.lock_until, auth.now)
        tracked == TrackFailedAttempt(checked.failed_attempts, checked.lock_until, auth.now)
        found == Len(auth.failed_attempts)
    IN  /\ TracksFailure(user, password) => Len(auth.failed_attempts) < MaxFailedAttempts
        /\ auth' =
             IF checked.is_locked
             THEN LoginState(checked.failed_attempts, checked.lock_until, auth.now,
                             LoginResult(password, found, HTTP_423_LOCKED))
             ELSE IF TracksFailure(user, password)
             THEN LoginState(tracked.failed_attempts, tracked.lock_until, auth.now,
                             LoginResult(password, found,
                                 IF tracked.raised THEN HTTP_500_INTERNAL_SERVER_ERROR
                                 ELSE HTTP_401_UNAUTHORIZED))
             ELSE IF user = "inactive"
             THEN LoginState(checked.failed_attempts, checked.lock_until, auth.now,
                             LoginResult(password, found, HTTP_403_FORBIDDEN))
             \* the password is right: the caches are cleared, then the handler
             \* reads settings.REFRESH_TOKEN_EXPIRE_DAYS, which Settings lacks too
             ELSE LoginState(ClearFailedAttempts.failed_attempts,
                             ClearFailedAttempts.lock_until, auth.now,
                             LoginResult(password, found, HTTP_500_INTERNAL_SERVER_ERROR))
        /\ UNCHANGED <<coreVars, extraction, jobs, last_retry>>

\* time passes
ClockAdvances ==
    /\ auth.now < MaxClock
    /\ auth' = [auth EXCEPT !.now = auth.now + 1]
    /\ UNCHANGED <<coreVars, extraction, jobs, last_retry>>

NextLogin ==
    \/ \E user \in {"absent", "active", "inactive"}, password \in {"wrong", "correct"} :
           Login(user, password)
    \/ ClockAdvances

(***************************************************************************)
(* The candidate's conversation: all operations on one candidate           *)
(***************************************************************************)
Init ==
    /\ has_conversation_state = FALSE
    /\ fields = <<>>
    /\ status = "new"
    /\ overall_confidence = Frac(0, 1)
    /\ messages = <<>>
    /\ max_evidence = [k \in AllKeys |-> 0]
    /\ last_evidence = NoEvidenceAtAll
    /\ last_op = "none"
    /\ last_reply = NoReply
    /\ reply_text = {}
    /\ reply_result = NoResult
    /\ ops = 0
    /\ last_job = NoJob
    /\ workers = <<>>
    /\ last_parsed_fields = {}
    /\ raw_text = None
    /\ extraction = NoExtraction
    /\ jobs = <<>>
    /\ last_retry = NoRetry
    /\ auth = NoLogins

Next ==
    \/ \E pd \in ParsedDataInputs, reprocess \in BOOLEAN, text \in GateTextLengths :
           ParseResumeContent(pd, reprocess, text)
    \/ \E text \in GateTextLengths : ParseResumeContentNoText(text)
    \/ \E loc \in MockLocations, reprocess \in BOOLEAN : ProcessResumeUpload(loc, reprocess)
    \/ \E data \in CandidateCreateInputs : CreateCandidate(data)
    \/ \E k \in ManualKeys : \E fs \in ManualFieldStates(k) : UpdateConversationState(fs)
    \/ \E asked \in AskedInputs : SendWhatsappMessage(asked, FALSE, "ai")
    \/ SendWhatsappMessage(<<>>, TRUE, "ai")
    \/ \E asked \in {<<>>, <<"location">>} : SendMessage(asked)
    \/ \E text \in ReplyTexts, llm \in LLMOutcomes : ProcessIncomingReply(text, llm)
    \/ ProcessIncomingReplyFails
    \/ \E text \in ReplyTexts : ReceiveReply(text)
    \/ \E i \in 1..Len(messages) : ApproveAndSend(i)
    \/ \E i \in 1..Len(messages) : HandleCandidateQuestion(i)

Spec == Init /\ [][Next]_vars

\* parse_resume_content on its own, over all text lengths
NextParse ==
    \/ \E pd \in ParsedDataInputs, reprocess \in BOOLEAN, text \in TextLengths :
           ParseResumeContent(pd, reprocess, text)
    \/ \E text \in TextLengths : ParseResumeContentNoText(text)

SpecParse == Init /\ [][NextParse]_vars

\* the job rows on their own, from the same initial state
SpecJobs == Init /\ [][NextJobs]_vars

\* the logins of one email, from the same initial state
SpecLogin == Init /\ [][NextLogin]_vars

\* the same with each worker thread scheduled fairly: a thread that
\* mock_celery_task.delay started keeps running until its function returns
SpecJobsFair == Init /\ [][NextJobs]_vars /\ \A j \in 1..MaxJobs : WF_vars(WorkerStep(j))

(***************************************************************************)
(* ResumeParser._calculate_confidence_scores, in hundredths                *)
(***************************************************************************)
Min(a, b) == IF a <= b THEN a ELSE b

\* scores['work_experience'] for a resume with that many entries, of which
\* complete_entries have a company and a title
WorkExperienceScore(entries, complete_entries) ==
    IF entries > 0 THEN Min(90, complete_entries * 30) ELSE 0

\* scores['skills'] for a resume with that many skills, of which known_skills
\* are in the skill dictionaries
SkillsScore(skills, known_skills) ==
    IF skills > 0 THEN Min(95, known_skills * 10 + 30) ELSE 0

\* the values scores['name'], scores['email'] and scores['phone'] can take
ContactScores == {90, 60, 0} \cup {95, 50, 0} \cup {90, 50, 0}

(***************************************************************************)
(* Resume worker threads: process_resume_upload.delay                      *)
(***************************************************************************)
\* a thread started by mock_celery_task's delay; pc is its position in
\* process_resume_upload, saw_state what it read of conversation_state
Worker(pc, reprocess, saw_state) ==
    [pc |-> pc, reprocess |-> reprocess, saw_state |-> saw_state]

\* the worker has set its job to PROCESSING and has not finished
Running(w) == w.pc \in {"processing", "read"}

\* api/resumes.py reprocess_resume: a new job and a new thread, whatever the
\* state of the candidate's other jobs
ReprocessResume ==
    /\ Len(workers) < MaxWorkers
    /\ workers' = Append(workers, Worker("queued", TRUE, FALSE))
    /\ UNCHANGED <<convVars, messages, histVars, clsVars, ops, last_job, last_parsed_fields, extVars>>
    /\ raw_text' = None

\* process_resume_upload: job.status = PROCESSING, commit
WorkerBegin(t) ==
    /\ workers[t].pc = "queued"
    /\ workers' = [workers EXCEPT ![t].pc = "processing"]
    /\ UNCHANGED <<convVars, messages, histVars, clsVars, ops, last_job, last_parsed_fields, extVars>>
    /\ raw_text' = None

\* process_resume_upload: the candidate is loaded into the thread's session
WorkerRead(t) ==
    /\ workers[t].pc = "processing"
    /\ workers' = [workers EXCEPT ![t].pc = "read",
                                  ![t].saw_state = has_conversation_state]
    /\ UNCHANGED <<convVars, messages, histVars, clsVars, ops, last_job, last_parsed_fields, extVars>>
    /\ raw_text' = None

\* process_resume_upload: the candidate's changes and the completed job are
\* committed; conversation_state is written when the thread read none
WorkerCommit(t, loc) ==
    /\ workers[t].pc = "read"
    /\ workers' = [workers EXCEPT ![t].pc = "completed"]
    /\ IF ~workers[t].saw_state
       THEN /\ fields' = WorkerConversationState(loc)
            /\ has_conversation_state' = TRUE
       ELSE UNCHANGED <<fields, has_conversation_state>>
    /\ overall_confidence' = Frac(75, 1)
    /\ last_job' = Job("completed", None)
    /\ last_parsed_fields' = WorkerParsedFields
    /\ UNCHANGED extVars
    /\ raw_text' = None
    /\ UNCHANGED <<status, messages, histVars, clsVars, ops>>

\* the candidate right after api/resumes.py upload_resume: its first thread
\* has been started
InitWorkers ==
    /\ has_conversation_state = FALSE
    /\ fields = <<>>
    /\ status = "new"
    /\ overall_confidence = Frac(0, 1)
    /\ messages = <<>>
    /\ max_evidence = [k \in AllKeys |-> 0]
    /\ last_evidence = NoEvidenceAtAll
    /\ last_op = "none"
    /\ last_reply = NoReply
    /\ reply_text = {}
    /\ reply_result = NoResult
    /\ ops = 0
    /\ last_job = NoJob
    /\ workers = <<Worker("queued", FALSE, FALSE)>>
    /\ last_parsed_fields = {}
    /\ raw_text = None
    /\ extraction = NoExtraction
    /\ jobs = <<>>
    /\ last_retry = NoRetry
    /\ auth = NoLogins

NextWorkers ==
    \/ ReprocessResume
    \/ \E t \in 1..Len(workers) : WorkerBegin(t)
    \/ \E t \in 1..Len(workers) : WorkerRead(t)
    \/ \E t \in 1..Len(workers), loc \in MockLocations : WorkerCommit(t, loc)

SpecWorkers == InitWorkers /\ [][NextWorkers]_vars

(***************************************************************************)
(* Pending-field computations                                              *)
(***************************************************************************)
KeysSeq(d) == [i \in 1..Len(d) |-> d[i].key]

\* CandidateService.get_pending_fields
CandidatePendingTest(f) == ~f.asked \/ ~f.answered

CandidateGetPendingFields(present, d) ==
    IF ~present THEN <<>>
    ELSE KeysSeq(SelectSeq(d, CandidatePendingTest))

\* MessagingService._get_pending_fields
MessagingPendingTest(f) == ~f.answered \/ (f.value = None /\ ~f.asked)

MessagingGetPendingFields(present, d) ==
    IF ~present THEN <<>>
    ELSE KeysSeq(SelectSeq(d, MessagingPendingTest))

PriorityOrder ==
    <<"location", "notice_period", "expected_salary", "availability", "portfolio_url">>

SeqToSet(q) == {q[i] : i \in 1..Len(q)}

FirstN(q, n) == SubSeq(q, 1, IF Len(q) < n THEN Len(q) ELSE n)

\* the list generate_conversational_message asks from when it is given none
GeneratePendingFields(present, d) ==
    LET pending_fields == MessagingGetPendingFields(present, d)
    IN  IF Len(pending_fields) > 3
        THEN FirstN(SelectSeq(PriorityOrder, LAMBDA f : f \in SeqToSet(pending_fields)), 3)
        ELSE pending_fields

(***************************************************************************)
(* Properties                                                              *)
(***************************************************************************)
ReplyOps == {"process_incoming_reply", "receive_reply"}
SendOps == {"send_message", "send_whatsapp_message"}

\* C1: when a field state exists, evidence offered by a parse, a reply or a
\* manual update with a lower confidence than the stored one (and a stored
\* value that is not null) leaves value and confidence as they were, and
\* evidence of equal confidence replaces the stored value.
C1_OverwriteOnlyByConfidence ==
    [][\A k \in AllKeys :
         (HasKey(fields, k) /\ last_evidence'[k] # NoEvidence) =>
            LET old == Get(fields, k)
                ev == last_evidence'[k]
            IN  /\ HasKey(fields', k)
                /\ (ev.confidence < old.confidence /\ old.value # None) =>
                       /\ Get(fields', k).value = old.value
                       /\ Get(fields', k).confidence = old.confidence
                /\ (ev.confidence = old.confidence) =>
                       Get(fields', k).value = ev.value]_vars

\* C2: the confidence stored for a field is never lower than the highest
\* confidence of any evidence item offered so far for that field.
C2_MergeMonotonic ==
    \A k \in AllKeys : HasKey(fields, k) => Get(fields, k).confidence >= max_evidence[k]

AnsweredKeys(d) == {d[i].key : i \in {j \in 1..Len(d) : d[j].answered}}

\* C3: none of the pending-field computations returns a field whose state
\* has answered = TRUE.
C3_PendingNeverAnswered ==
    /\ SeqToSet(CandidateGetPendingFields(has_conversation_state, fields))
           \cap AnsweredKeys(fields) = {}
    /\ SeqToSet(MessagingGetPendingFields(has_conversation_state, fields))
           \cap AnsweredKeys(fields) = {}
    /\ SeqToSet(GeneratePendingFields(has_conversation_state, fields))
           \cap AnsweredKeys(fields) = {}

\* C4: a field state with answered = TRUE has a value that is not null.
C4_AnsweredHasValue ==
    \A i \in 1..Len(fields) : fields[i].answered => fields[i].value # None

\* C5: in every field state, answered equals (confidence > 0.5).
C5_AnsweredIffConfident ==
    \A i \in 1..Len(fields) : fields[i].answered <=> (fields[i].confidence > 50)

\* C6: an outgoing message that responds to an incoming reply flagged
\* requires_hr_review is never the automatic reply of the reply's processing;
\* it is created by one of the two approve operations, which mark the reply
\* approved.
C6_ReviewSuppressesAutoReply ==
    \A j \in 1..Len(messages) :
        (messages[j].direction = "outgoing" /\ messages[j].reply_to # 0) =>
            LET incoming == messages[messages[j].reply_to]
            IN  /\ incoming.direction = "incoming"
                /\ messages[j].origin = "auto_reply" => ~incoming.requires_hr_review
                /\ incoming.requires_hr_review =>
                       /\ messages[j].origin \in {"approve_and_send", "handle_candidate_question"}
                       /\ incoming.hr_approved

\* a reply flagged for review has been processed and nothing was sent after it
C6_Witness ==
    /\ Len(messages) > 0
    /\ messages[Len(messages)].direction = "incoming"
    /\ messages[Len(messages)].requires_hr_review
    /\ messages[Len(messages)].origin = "process_incoming_reply"
    /\ Truthy(last_reply.analysis.suggested_reply)

\* the analysis carries a value for the field under the field's own name
Yields(data, k) == InData(data, k) /\ Truthy(data[k])

\* C7: when a reply is processed for a field that the preceding outbound
\* message asked and the analysis yields a value for it, the field's state
\* becomes answered with that value and source "reply".
C7_YieldedFieldAnswered ==
    [][(last_op' = "process_incoming_reply") =>
         \A k \in {"location", "expected_salary"} :
            (/\ k \in SeqToSet(last_reply'.asked_fields)
             /\ HasKey(fields, k)
             /\ Yields(last_reply'.analysis.extracted_data, k)) =>
                /\ Get(fields', k).answered
                /\ Get(fields', k).value = last_reply'.analysis.extracted_data[k]
                /\ Get(fields', k).source = "reply"]_vars

\* the analysis carries nothing for the field, under its name or its mapped key
NotYielded(data, k) == ~InData(data, k) /\ ~InData(data, MapToConversationKey(k))

\* a reply has just been handled for field k, which was in state asked and
\* was asked by the preceding outbound message, and the reply did not yield it
UnyieldedAskedField(k) ==
    /\ last_op \in ReplyOps
    /\ k \in SeqToSet(last_reply.asked_fields)
    /\ k \in last_reply.was_asked
    /\ NotYielded(last_reply.analysis.extracted_data, k)
    /\ HasKey(fields, k)

C9_AskedNotPending ==
    (last_op \in SendOps /\ ~messages[Len(messages)].asked_none) =>
        \A k \in SeqToSet(messages[Len(messages)].asked_fields) :
            HasKey(fields, k) =>
                /\ Get(fields, k).asked
                /\ k \notin SeqToSet(MessagingGetPendingFields(has_conversation_state, fields))

\* the classification the stated priority order gives: decline, question,
\* clarification, affirmative, default interested
PriorityClassification(text) ==
    LET lower_text == LowerText(text)
    IN  IF AnyIn(DeclinePhrases, lower_text) THEN "not_interested"
        ELSE IF AnyIn(QuestionIndicators, lower_text) THEN "question"
        ELSE IF AnyIn(ClarificationWords, lower_text) THEN "needs_clarification"
        ELSE "interested"

\* C10: a deterministic classification follows the priority order decline,
\* question, clarification, affirmative, default interested, and a decline
\* does not require review.
C10_ClassifierPriorityOrder ==
    (reply_result.by # "none") =>
        /\ reply_result.classification = PriorityClassification(reply_text)
        /\ reply_result.classification = "not_interested" => ~reply_result.requires_hr_review

\* the reply text has no decline phrase and at least one question indicator
IsQuestionText(text) ==
    /\ ~AnyIn(DeclinePhrases, LowerText(text))
    /\ AnyIn(QuestionIndicators, LowerText(text))

\* C11: a reply with no decline phrase and a question indicator is classified
\* question by either classifier, requires review and carries a suggested
\* reply that is not null; with a compensation keyword the suggested reply is
\* the compensation one.
C11_QuestionNeedsReviewAndReply ==
    (reply_result.by # "none" /\ IsQuestionText(reply_text)) =>
        /\ reply_result.classification = "question"
        /\ reply_result.requires_hr_review
        /\ reply_result.suggested_reply # None
        /\ AnyIn(CompensationWords, LowerText(reply_text)) =>
               reply_result.suggested_reply = ReplyCompensation

\* the keys of the fields that are not answered
UnansweredKeys(d) == {d[i].key : i \in {j \in 1..Len(d) : ~d[j].answered}}

\* the unanswered fields on the priority list, in priority order
PriorityUnanswered(d) == SelectSeq(PriorityOrder, LAMBDA f : f \in UnansweredKeys(d))

\* C12: on a profile with 5 unanswered fields the selection returns exactly 3
\* distinct unanswered fields: those on the priority list first, in priority
\* order, the remaining slots filled by other unanswered fields.
C12_SelectsThreeByPriority ==
    (has_conversation_state /\ Cardinality(UnansweredKeys(fields)) = 5) =>
        LET selected == GeneratePendingFields(has_conversation_state, fields)
            first == FirstN(PriorityUnanswered(fields), 3)
        IN  /\ Len(selected) = 3
            /\ Cardinality(SeqToSet(selected)) = 3
            /\ SeqToSet(selected) \subseteq UnansweredKeys(fields)
            /\ SubSeq(selected, 1, Len(first)) = first
            /\ \A i \in (Len(first) + 1)..3 : selected[i] \notin SeqToSet(PriorityOrder)

ResumeJobOps == {"parse_resume_content", "process_resume_upload"}

\* C13: a resume job that ends in status failed leaves the candidate's
\* conversation state, status and overall confidence exactly as they were
\* before the job started.
C13_FailedJobLeavesProfile ==
    [][(last_op' \in ResumeJobOps /\ last_job'.status = "failed") =>
           convVars' = convVars]_vars

\* C14: at most one resume worker of the candidate is running at a time.
C14_OneWorkerAtATime ==
    Cardinality({t \in 1..Len(workers) : Running(workers[t])}) <= 1

\* C15: the stored overall confidence is the mean of the non-zero field
\* confidences of the conversation state, as a percentage, and 0 when there
\* is none.
C15_AggregateIsMeanOfNonZero ==
    overall_confidence = CalculateCandidateConfidence(has_conversation_state, fields)

\* C16: a resume parse or reprocess leaves asked = TRUE on every field that
\* had it.
C16_ResumeMergeKeepsAsked ==
    [][(last_op' \in ResumeJobOps) =>
           \A i \in 1..Len(fields) :
               fields[i].asked =>
                   /\ HasKey(fields', fields[i].key)
                   /\ Get(fields', fields[i].key).asked]_vars

\* C17: a field whose source is None has confidence 0 and answered = FALSE.
C17_NoSourceNoConfidence ==
    \A i \in 1..Len(fields) :
        fields[i].source = None => (fields[i].confidence = 0 /\ ~fields[i].answered)

\* a confidence, in hundredths, that lies within [0,1]
InUnitRange(c) == c >= 0 /\ c <= 100

\* C18: every confidence is within [0,1]: what the parser's scoring gives
\* for any number of work-experience entries and recognised skills, what is
\* stored in a field state, and what is stored in a reply-derived ParsedField
\* row.
C18_ConfidenceInUnitRange ==
    /\ \A c \in ContactScores : InUnitRange(c)
    /\ \A n \in 0..MaxScored : \A k \in 0..n :
           InUnitRange(WorkExperienceScore(n, k)) /\ InUnitRange(SkillsScore(n, k))
    /\ \A i \in 1..Len(fields) : InUnitRange(fields[i].confidence)
    /\ \A r \in last_parsed_fields :
           r.source = "reply_analysis" => InUnitRange(r.confidence)

\* the analysis the keyword fallback gives for a reply text
FallbackAnalysis(text) ==
    Analysis(TRUE, FallbackClassification(text), NoData, FALSE,
             FallbackClassification(text) = "question", None)

MatchesNoPattern(text) ==
    ~AnyIn(DeclinePhrases \cup QuestionIndicators \cup ClarificationWords
               \cup AffirmativeWords, LowerText(text))

\* C20: a reply that matches no pattern is classified question and requires
\* review.
C20_DefaultIsQuestionNeedsReview ==
    (reply_result.by # "none" /\ MatchesNoPattern(reply_text)) =>
        /\ reply_result.classification = "question"
        /\ reply_result.requires_hr_review

\* C21: a parse whose document yields under 100 characters of text fails hard:
\* the job ends failed and the parse neither extracts fields nor updates the
\* candidate.
C21_ShortTextIsHardFailure ==
    [][(last_op' = "parse_resume_content" /\ raw_text' < SufficientChars) =>
          /\ last_job'.status = "failed"
          /\ last_evidence' = NoEvidenceAtAll
          /\ UNCHANGED <<convVars, last_parsed_fields>>]_vars

\* the output of the named attempt of the extraction
OutputOf(attempt) ==
    CASE attempt = "primary" -> extraction.primary
      [] attempt = "secondary" -> extraction.secondary
      [] attempt = "ocr" -> extraction.ocr

\* C22: the PDF extraction returns the longest candidate among all attempts:
\* the returned text is at least as long as the output of each attempt made,
\* an OCR output of 100 characters or fewer included.
C22_ReturnsLongestAttempt ==
    extraction.by = "_extract_from_pdf" =>
        \A attempt \in extraction.tried :
            ~OutputOf(attempt).raised =>
                extraction.result.len >= OutputOf(attempt).len

\* an attempt that gave fewer than 100 characters, or none because it raised
Insufficient(out) == out.raised \/ out.strip < SufficientChars

\* C23: the secondary text-layer attempt is made only if the primary gives
\* fewer than 100 characters, and OCR only if both text-layer attempts are
\* insufficient and OCR is enabled; a PDF with a text layer of at least 100
\* characters is returned from the text layer without OCR; OCR is invoked when
\* the primary raises and the secondary gives fewer than 100 characters.
C23_FallbackChainOrder ==
    /\ extraction.by = "_extract_from_pdf" =>
        /\ "secondary" \in extraction.tried => Insufficient(extraction.primary)
        /\ "ocr" \in extraction.tried =>
              /\ extraction.use_ocr
              /\ Insufficient(extraction.primary)
              /\ Insufficient(extraction.secondary)
        /\ ~Insufficient(extraction.primary) =>
              /\ "ocr" \notin extraction.tried
              /\ extraction.result \in {extraction.primary, extraction.secondary}
        /\ (/\ extraction.primary.raised
            /\ ~extraction.secondary.raised
            /\ extraction.secondary.strip < SufficientChars
            /\ extraction.use_ocr) => "ocr" \in extraction.tried
    /\ extraction.by = "_extract_text_from_file" =>
        (~Insufficient(extraction.secondary) => "ocr" \notin extraction.tried)

\* the statuses of a job that is over
TerminalStatuses == {"completed", "failed"}

\* C24: every failed job carries a non-empty error string, and a job whose
\* worker has returned is completed or failed, after any sequence of worker
\* steps, update_job_status calls and cancellations.
C24_FailedJobsCarryError ==
    \A j \in DOMAIN jobs :
        /\ jobs[j].status = "failed" => Truthy(jobs[j].error)
        /\ jobs[j].pc = "done" => jobs[j].status \in TerminalStatuses

\* C25: a completed or failed job never changes status again; a job cancelled
\* while its worker was running never becomes completed and its worker does
\* not update the candidate.
C25_TerminalStatusIsFinal ==
    [][\A j \in DOMAIN jobs :
          jobs[j].status \in TerminalStatuses =>
              /\ jobs'[j].status = jobs[j].status
              /\ jobs[j].error = "Cancelled by user" =>
                     jobs'[j].updated_candidate = jobs[j].updated_candidate]_vars

\* the worker functions of parse jobs
ParseKinds == {"process_resume_upload", "parse_resume_content"}

\* C26: every parse job handed to a worker eventually reaches completed or
\* failed, also when the resume or the candidate it refers to does not exist.
C26_ParseJobsTerminate ==
    \A j \in 1..MaxJobs :
        (j \in DOMAIN jobs /\ jobs[j].kind \in ParseKinds /\ jobs[j].pc = "start")
            ~> (j \in DOMAIN jobs /\ jobs[j].status \in TerminalStatuses)

\* C29: retry_failed_job creates a new queued job, one retry further and
\* pointing at the original, exactly when the original job is failed; on a
\* queued, processing or completed job it creates none.
C29_RetryOnlyFailedJobs ==
    [][last_retry' # last_retry =>
          LET j == last_retry'.job
          IN  IF jobs[j].status = "failed"
              THEN /\ Len(jobs') = Len(jobs) + 1
                   /\ jobs'[Len(jobs')].status = "queued"
                   /\ jobs'[Len(jobs')].retry_of = j
                   /\ jobs'[Len(jobs')].retry_count = jobs[j].retry_count + 1
              ELSE jobs' = jobs]_vars

ApprovalResponses(i) ==
    {j \in 1..Len(messages) :
        /\ messages[j].direction = "outgoing"
        /\ messages[j].reply_to = i
        /\ messages[j].origin \in {"approve_and_send", "handle_candidate_question"}}

\* C28: for each incoming message flagged requires_hr_review the approvals
\* create at most one outgoing response: once the message is approved, a
\* further approve call creates no second one.
C28_OneResponsePerApproval ==
    \A i \in 1..Len(messages) :
        NeedsReview(messages, i) => Cardinality(ApprovalResponses(i)) <= 1

\* C30: once the failed attempts of an email inside the lock window have
\* reached MAX_LOGIN_ATTEMPTS, every login for it before the lock expires is
\* answered as locked, the correct password included. The code gives the
\* threshold no value; for any threshold up to MaxFailedAttempts a login that
\* finds MaxFailedAttempts failed attempts, all of the current minute, is
\* inside the window and inside the lock.
C30_LockedAfterMaxAttempts ==
    [][(/\ auth'.last_login # auth.last_login \/ auth'.failed_attempts # auth.failed_attempts
        /\ auth'.now = auth.now
        /\ Len(auth.failed_attempts) = MaxFailedAttempts
        /\ \A i \in 1..Len(auth.failed_attempts) : auth.failed_attempts[i] = auth.now)
          => /\ auth'.last_login.response = HTTP_423_LOCKED
             /\ auth'.failed_attempts = auth.failed_attempts
             /\ auth'.lock_until = auth.lock_until]_vars

====
